---- MODULE Spec2Model ----
(***************************************************************************)
(* Model of download_bdortho.py: the three commands that carry decision    *)
(* logic.                                                                  *)
(*   filter     filter_tiles_by_intersection      (SpecFilter)             *)
(*   shapefile  prepare_data_based_on_shapefiles  (SpecShapefile)          *)
(*   download   download_data_from_csv            (SpecDownload)           *)
(*                                                                         *)
(* Geometry is one-dimensional: a feature's footprint is a closed interval *)
(* <<lo, hi>> of the line 0..2, given by its position on the ground.  A    *)
(* footprint with lo = hi is a point, one with lo < hi has extent.  Two    *)
(* footprints that share only an end point touch along their boundary.     *)
(* to_crs re-expresses a footprint in another reference system without     *)
(* moving it on the ground, so it changes the crs tag of a dataset only.   *)
(*                                                                         *)
(* The features of the caller's file (reference_shapefile, input_shapefile)*)
(* carry no attribute the code reads, and the rows the overlay yields for  *)
(* a tile or a department do not depend on their order: such a file is the *)
(* set of its footprints.  Tiles and departments are ordered records.      *)
(***************************************************************************)
EXTENDS Integers, Sequences, FiniteSets, TLC

\* Bounds of the model.
MaxTiles == 2
MaxReference == 2
MaxDepts == 2
MaxInput == 2
MaxRows == 2

Coords == {0, 1, 2}

\* Footprints of the caller's features: points and segments.
Extents == {e \in Coords \X Coords : e[1] <= e[2]}

\* Footprints of tiles and departments: the unit cells of the grid.
Cells == {e \in Coords \X Coords : e[2] = e[1] + 1}

\* An attribute with no value in the file (read as None).
Null == "<null>"

TileNames == {"t1", "t2"}
NomValues == TileNames \cup {Null}
FileNames == TileNames \cup {"None"}

TargetCRS == "EPSG:2154"
NoCRS == "undeclared"
CRSValues == {TargetCRS, "EPSG:4326", NoCRS}

\* Sequences over S of length at most n.
SeqUpTo(S, n) == UNION {[1..k -> S] : k \in 0..n}

\* Sets over S of at most n elements.
SetUpTo(S, n) == {T \in SUBSET S : Cardinality(T) <= n}

TileRecords == [NOM : NomValues, geom : Cells]

\* Department identifiers; every department feature carries one.
Codes == {"67", "68"}
DepartmentRecords == [code : Codes, geom : Cells]

\* A region argument of the download command: a catalogued code or another.
Regions == Codes \cup {"75"}

\* The catalog written by fetch: rows of Code and Link.  Row i holds the
\* i-th link of the page, so the links of a catalog are distinct.
Catalogs == UNION {{[i \in 1..k |-> [Code |-> c[i], Link |-> i]] : c \in [1..k -> Codes]} : k \in 0..MaxRows}

Range(s) == {s[i] : i \in 1..Len(s)}

VARIABLES
  command,             \* the command main dispatches to
  pc,                  \* position in the running command
  err,                 \* how the command failed, "none" while it has not
  log,                 \* records written through logging: <<level, what, subject>>
  runNo,               \* 1 in the first invocation of filter, 2 in the second
  tilesFile,           \* features of tiles_shapefile on disk
  referenceFile,       \* footprints of reference_shapefile on disk
  data_directory,      \* names of the files in data_directory
  dir0,                \* data_directory as it was before the first invocation
  tiles,               \* the loaded tiles dataset: [crs, features]
  reference,           \* the loaded reference dataset: [crs, features]
  overlayRuns,         \* number of overlays evaluated
  missingCrs,          \* the datasets that were read without a declared crs
  intersected_tile_ids,
  all_tiles,
  tiles_to_remove,
  todo,                \* members of tiles_to_remove the loop has yet to visit
  removeCalls,         \* names os.remove was called with
  removed1,            \* tiles_to_remove of the completed first invocation
  dir1,                \* data_directory as the first invocation left it
  departmentsFile,     \* features of department_geojson on disk
  inputFile,           \* footprints of input_shapefile on disk
  departments,         \* the loaded departments dataset: [crs, features]
  input_data,          \* the loaded input dataset: [crs, features]
  department_codes,    \* the selected codes, in the order of the loop
  codeIdx,             \* position of the loop over department_codes
  calls,               \* regions download_data_from_csv was called with
  caller,              \* who called download_data_from_csv
  region,              \* its region argument
  csvFile,             \* rows of the catalog file
  links,               \* the links download_data_from_csv resolved
  linkIdx,             \* position of the loop over links
  requested,           \* <<region, link>> of every requests.get, in order
  saved,               \* <<region, link>> of every file written
  regionDirs           \* regions whose download directory was made

filterVars == <<runNo, tilesFile, referenceFile, data_directory, dir0, tiles,
                reference, intersected_tile_ids, all_tiles, tiles_to_remove,
                todo, removeCalls, removed1, dir1>>

selectVars == <<departmentsFile, inputFile, departments, input_data,
                department_codes, codeIdx, calls>>

downloadVars == <<caller, region, csvFile, links, linkIdx, requested, saved,
                  regionDirs>>

vars == <<command, pc, err, log, overlayRuns, missingCrs, filterVars, selectVars,
          downloadVars>>

\* A dataset variable before its file is read.
NoData == [crs |-> "unread", features |-> <<>>]

----------------------------------------------------------------------------
\* Geometry and geopandas.overlay(how='intersection', keep_geom_type=False)

\* Mutant: only footprints that share extent intersect, as a polygon-only
\* overlay would have it.
Intersects_InteriorsOnly(a, b) == a[1] < b[2] /\ b[1] < a[2]

\* shapely's intersects predicate on closed footprints: touching counts.
Intersects(a, b) == a[1] <= b[2] /\ b[1] <= a[2]

IsPoint(e) == e[1] = e[2]

\* overlay raises NotImplementedError for a dataset that mixes points and
\* geometries with extent.
MixedGeomTypes(geoms) == (\E g \in geoms : IsPoint(g)) /\ (\E g \in geoms : ~IsPoint(g))

\* Mutant: a join without the spatial predicate pairs every footprint with
\* every feature.
Hits_EveryFeature(g, aoi) == Cardinality(aoi)

\* Number of features of `aoi` a footprint intersects: the number of rows
\* the overlay yields for that footprint.
Hits(g, aoi) == Cardinality({a \in aoi : Intersects(g, a)})

Repeat(x, n) == [i \in 1..n |-> x]

\* The column `attr` of the overlay of `feats` with `aoi`: one row for each
\* intersecting pair, in the order of `feats`.
RECURSIVE OverlayColumn(_, _, _)
OverlayColumn(feats, aoi, attr) ==
  IF feats = <<>> THEN <<>>
  ELSE Repeat(Head(feats)[attr], Hits(Head(feats).geom, aoi))
       \o OverlayColumn(Tail(feats), aoi, attr)

\* pandas Series.unique(): the distinct values in order of first appearance;
\* a missing value is a value like any other.
RECURSIVE Unique(_)
Unique(s) ==
  IF s = <<>> THEN <<>>
  ELSE LET r == Unique(SubSeq(s, 1, Len(s) - 1))
       IN IF s[Len(s)] \in Range(r) THEN r ELSE Append(r, s[Len(s)])

Column(feats, attr) == [i \in 1..Len(feats) |-> feats[i][attr]]

----------------------------------------------------------------------------
\* filter_tiles_by_intersection

\* f"{tile_id}": a missing identifier formats as the text None.
TileFileName(tile_id) == IF tile_id = Null THEN "None" ELSE tile_id

\* Mutant: the file is removed without the existence test.
TileFileExists_Unchecked(dir, name) == TRUE

\* os.path.exists(tile_file)
TileFileExists(dir, name) == name \in dir

\* Mutant: the intersecting identifiers are not subtracted.
TilesToRemove_NoDifference(all, kept) == all

\* tiles_to_remove = all_tiles - set(intersected_tile_ids)
TilesToRemove(all, kept) == all \ Range(kept)

\* The variables of shapefile while another command runs.
SelectIdle ==
  /\ departmentsFile = <<>>
  /\ inputFile = {}
  /\ departments = NoData
  /\ input_data = NoData
  /\ department_codes = <<>>
  /\ codeIdx = 1
  /\ calls = <<>>

\* The variables of download_data_from_csv before it is called; the catalog
\* file is empty for a command that does not read it.
DownloadIdle ==
  /\ caller = "none"
  /\ region = "none"
  /\ csvFile = <<>>
  /\ links = <<>>
  /\ linkIdx = 1
  /\ requested = <<>>
  /\ saved = {}
  /\ regionDirs = {}

\* The variables of filter while another command runs.
FilterIdle ==
  /\ runNo = 1
  /\ tilesFile = <<>>
  /\ referenceFile = {}
  /\ data_directory = {}
  /\ dir0 = {}
  /\ tiles = NoData
  /\ reference = NoData
  /\ intersected_tile_ids = <<>>
  /\ all_tiles = {}
  /\ tiles_to_remove = {}
  /\ todo = {}
  /\ removeCalls = {}
  /\ removed1 = {}
  /\ dir1 = {}

InitFilter ==
  /\ command = "filter"
  /\ pc = "start"
  /\ missingCrs = {}
  /\ err = "none"
  /\ log = {}
  /\ runNo = 1
  /\ tilesFile \in SeqUpTo(TileRecords, MaxTiles)
  /\ referenceFile \in SetUpTo(Extents, MaxReference)
  /\ data_directory \in SUBSET FileNames
  /\ dir0 = data_directory
  /\ tiles = NoData
  /\ reference = NoData
  /\ overlayRuns = 0
  /\ intersected_tile_ids = <<>>
  /\ all_tiles = {}
  /\ tiles_to_remove = {}
  /\ todo = {}
  /\ removeCalls = {}
  /\ removed1 = {}
  /\ dir1 = {}
  /\ SelectIdle
  /\ DownloadIdle

\* Lines 157-162: both files are read; a failure of either is logged and the
\* function returns.  In a second invocation the files are the ones the
\* first invocation read and normalized.
FilterRead ==
  /\ command = "filter"
  /\ pc = "start"
  /\ \E ok \in (IF runNo = 1 THEN BOOLEAN ELSE {TRUE}) :
       IF ok
       THEN \E rc \in (IF runNo = 1 THEN CRSValues ELSE CRSValues \ {NoCRS}),
               tc \in (IF runNo = 1 THEN CRSValues ELSE CRSValues \ {NoCRS}) :
              /\ reference' = [crs |-> rc, features |-> referenceFile]
              /\ tiles' = [crs |-> tc, features |-> tilesFile]
              /\ missingCrs' = {d \in {"reference"} : rc = NoCRS}
                                \cup {d \in {"tiles"} : tc = NoCRS}
              /\ pc' = "loaded"
              /\ UNCHANGED <<err, log>>
       ELSE /\ pc' = "done"
            /\ err' = "read_error"
            /\ log' = log \cup {<<"ERROR", "Error reading shapefile", "">>}
            /\ UNCHANGED <<tiles, reference, missingCrs>>
  /\ UNCHANGED <<runNo, tilesFile, referenceFile, data_directory, dir0,
                 overlayRuns, intersected_tile_ids, all_tiles, tiles_to_remove,
                 todo, removeCalls, removed1, dir1>>
  /\ UNCHANGED <<selectVars, downloadVars>>
  /\ UNCHANGED <<command>>

\* Mutant: a dataset without a crs is taken to be in the target crs.
ToCrsRaises_AssumesCRS(ds) == FALSE

\* GeoDataFrame.to_crs raises ValueError on a dataset without a crs.
ToCrsRaises(ds) == ds.crs = NoCRS

\* Lines 165-168: a dataset whose crs is not EPSG:2154 is reprojected.
NeedsReprojection(ds) == ds.crs # TargetCRS

ToCrs(ds) == [ds EXCEPT !.crs = TargetCRS]

Normalized(ds) == IF NeedsReprojection(ds) THEN ToCrs(ds) ELSE ds

\* Lines 164-168: the ValueError of to_crs is not caught; it ends the command.
FilterNormalize ==
  /\ command = "filter"
  /\ pc = "loaded"
  /\ IF \/ (NeedsReprojection(reference) /\ ToCrsRaises(reference))
        \/ (NeedsReprojection(tiles) /\ ToCrsRaises(tiles))
     THEN /\ pc' = "crashed"
          /\ err' = "crs_error"
          /\ UNCHANGED <<tiles, reference>>
     ELSE /\ pc' = "normalized"
          /\ reference' = Normalized(reference)
          /\ tiles' = Normalized(tiles)
          /\ UNCHANGED err
  /\ UNCHANGED <<log, runNo, tilesFile, referenceFile, data_directory, dir0,
                 overlayRuns, intersected_tile_ids, all_tiles, tiles_to_remove,
                 todo, removeCalls, removed1, dir1>>
  /\ UNCHANGED <<selectVars, downloadVars>>
  /\ UNCHANGED <<command, missingCrs>>

\* Mutant: the handler logs and does not return.
AfterOverlayError_NoReturn == IF command = "filter" THEN "prune" ELSE "acquire"

\* The return of the handler of an overlay exception (lines 144 and 175).
AfterOverlayError == "done"

\* Lines 170-178: the overlay and the two sets; an exception of the overlay
\* is logged and the function returns.
FilterOverlay ==
  /\ command = "filter"
  /\ pc = "normalized"
  /\ IF MixedGeomTypes(reference.features)
     THEN /\ pc' = AfterOverlayError
          /\ err' = "overlay_error"
          /\ log' = log \cup {<<"ERROR", "Error during spatial intersection", "">>}
          /\ UNCHANGED <<overlayRuns, intersected_tile_ids, all_tiles,
                         tiles_to_remove, todo>>
     ELSE LET ids == Unique(OverlayColumn(tiles.features, reference.features, "NOM"))
              all == Range(Unique(Column(tiles.features, "NOM")))
          IN /\ overlayRuns' = overlayRuns + 1
             /\ intersected_tile_ids' = ids
             /\ all_tiles' = all
             /\ tiles_to_remove' = TilesToRemove(all, ids)
             /\ todo' = TilesToRemove(all, ids)
             /\ pc' = "prune"
             /\ UNCHANGED <<err, log>>
  /\ UNCHANGED <<runNo, tilesFile, referenceFile, data_directory, dir0, tiles,
                 reference, removeCalls, removed1, dir1>>
  /\ UNCHANGED <<selectVars, downloadVars>>
  /\ UNCHANGED <<command, missingCrs>>

\* Lines 180-184, one iteration: the loop visits the members of the set in
\* an order of its own.  os.remove raises FileNotFoundError for a name that
\* is not there; the exception is not caught.
FilterRemove ==
  /\ command = "filter"
  /\ pc = "prune"
  /\ \E tile_id \in todo :
       LET tile_file == TileFileName(tile_id) IN
       /\ todo' = todo \ {tile_id}
       /\ IF TileFileExists(data_directory, tile_file)
          THEN /\ removeCalls' = removeCalls \cup {tile_file}
               /\ IF tile_file \in data_directory
                  THEN /\ data_directory' = data_directory \ {tile_file}
                       /\ log' = log \cup {<<"INFO", "Removed tile", tile_file>>}
                       /\ UNCHANGED <<pc, err>>
                  ELSE /\ pc' = "crashed"
                       /\ err' = "remove_error"
                       /\ UNCHANGED <<data_directory, log>>
          ELSE UNCHANGED <<removeCalls, data_directory, log, pc, err>>
  /\ UNCHANGED <<runNo, tilesFile, referenceFile, dir0, tiles, reference,
                 overlayRuns, intersected_tile_ids, all_tiles, tiles_to_remove,
                 removed1, dir1>>
  /\ UNCHANGED <<selectVars, downloadVars>>
  /\ UNCHANGED <<command, missingCrs>>

\* The loop has visited every member: the function returns.
FilterReturn ==
  /\ command = "filter"
  /\ pc = "prune"
  /\ todo = {}
  /\ pc' = "done"
  /\ UNCHANGED <<err, log, runNo, tilesFile, referenceFile, data_directory, dir0,
                 tiles, reference, overlayRuns, intersected_tile_ids, all_tiles,
                 tiles_to_remove, todo, removeCalls, removed1, dir1>>
  /\ UNCHANGED <<selectVars, downloadVars>>
  /\ UNCHANGED <<command, missingCrs>>

\* The filter command is run again, with the same arguments, on the directory
\* a completed first run has pruned.
FilterAgain ==
  /\ command = "filter"
  /\ pc = "done"
  /\ err = "none"
  /\ runNo = 1
  /\ runNo' = 2
  /\ removed1' = tiles_to_remove
  /\ dir1' = data_directory
  /\ pc' = "start"
  /\ tiles' = NoData
  /\ reference' = NoData
  /\ intersected_tile_ids' = <<>>
  /\ all_tiles' = {}
  /\ tiles_to_remove' = {}
  /\ todo' = {}
  /\ removeCalls' = {}
  /\ UNCHANGED <<err, log, tilesFile, referenceFile, data_directory, dir0,
                 overlayRuns>>
  /\ UNCHANGED <<selectVars, downloadVars>>
  /\ UNCHANGED <<command, missingCrs>>

NextFilter ==
  \/ FilterRead
  \/ FilterNormalize
  \/ FilterOverlay
  \/ FilterRemove
  \/ FilterReturn
  \/ FilterAgain

SpecFilter == InitFilter /\ [][NextFilter]_vars

----------------------------------------------------------------------------
\* download_data_from_csv

\* Mutant: the rows are not filtered by Code.
ResolveLinks_AllRows(rows, reg) == [i \in 1..Len(rows) |-> rows[i].Link]

\* Lines 69-72: the Link of every row whose Code equals region, in file order.
RECURSIVE ResolveLinks(_, _)
ResolveLinks(rows, reg) ==
  IF rows = <<>> THEN <<>>
  ELSE (IF Head(rows).Code = reg THEN <<Head(rows).Link>> ELSE <<>>)
       \o ResolveLinks(Tail(rows), reg)

\* Where control goes when download_data_from_csv returns.
AfterDownload == IF caller = "shapefile" THEN "acquire" ELSE "done"

AfterDownloadIdx == IF caller = "shapefile" THEN codeIdx + 1 ELSE codeIdx

\* Lines 66-78: the catalog is read and filtered and the region directory
\* is made; a catalog file that is not there is logged and the function
\* returns.
DownloadResolve ==
  /\ pc = "dl_start"
  /\ \E found \in BOOLEAN :
       IF found
       THEN /\ links' = ResolveLinks(csvFile, region)
            /\ linkIdx' = 1
            /\ regionDirs' = regionDirs \cup {region}
            /\ pc' = "dl_fetch"
            /\ UNCHANGED <<err, log, codeIdx>>
       ELSE /\ log' = log \cup {<<"ERROR", "CSV file not found", region>>}
            /\ err' = "csv_missing"
            /\ pc' = AfterDownload
            /\ codeIdx' = AfterDownloadIdx
            /\ UNCHANGED <<links, linkIdx, regionDirs>>
  /\ UNCHANGED <<overlayRuns, filterVars, departmentsFile, inputFile,
                 departments, input_data, department_codes, calls, caller,
                 region, csvFile, requested, saved>>
  /\ UNCHANGED <<command, missingCrs>>

\* Lines 80-91, one iteration: the link is requested; the file is written
\* when the request succeeds, and a RequestException is logged.
DownloadFetch ==
  /\ pc = "dl_fetch"
  /\ linkIdx <= Len(links)
  /\ requested' = Append(requested, <<region, links[linkIdx]>>)
  /\ linkIdx' = linkIdx + 1
  /\ \E ok \in BOOLEAN :
       IF ok
       THEN /\ saved' = saved \cup {<<region, links[linkIdx]>>}
            /\ log' = log \cup {<<"INFO", "Successfully downloaded", links[linkIdx]>>}
       ELSE /\ log' = log \cup {<<"ERROR", "Error downloading", links[linkIdx]>>}
            /\ UNCHANGED saved
  /\ UNCHANGED <<pc, err, overlayRuns, filterVars, selectVars, caller, region,
                 csvFile, links, regionDirs>>
  /\ UNCHANGED <<command, missingCrs>>

\* The loop over links has ended: the function returns.
DownloadReturn ==
  /\ pc = "dl_fetch"
  /\ linkIdx > Len(links)
  /\ pc' = AfterDownload
  /\ codeIdx' = AfterDownloadIdx
  /\ UNCHANGED <<err, log, overlayRuns, filterVars, departmentsFile, inputFile,
                 departments, input_data, department_codes, calls,
                 downloadVars>>
  /\ UNCHANGED <<command, missingCrs>>

\* main, lines 216-217: the download command.
InitDownload ==
  /\ command = "download"
  /\ pc = "dl_start"
  /\ missingCrs = {}
  /\ err = "none"
  /\ log = {}
  /\ overlayRuns = 0
  /\ FilterIdle
  /\ SelectIdle
  /\ caller = "main"
  /\ region \in Regions
  /\ csvFile \in Catalogs
  /\ links = <<>>
  /\ linkIdx = 1
  /\ requested = <<>>
  /\ saved = {}
  /\ regionDirs = {}

NextDownload ==
  \/ DownloadResolve
  \/ DownloadFetch
  \/ DownloadReturn

SpecDownload == InitDownload /\ [][NextDownload]_vars

----------------------------------------------------------------------------
\* prepare_data_based_on_shapefiles

InitShapefile ==
  /\ command = "shapefile"
  /\ pc = "start"
  /\ missingCrs = {}
  /\ err = "none"
  /\ log = {}
  /\ overlayRuns = 0
  /\ FilterIdle
  /\ departmentsFile \in SeqUpTo(DepartmentRecords, MaxDepts)
  /\ inputFile \in SetUpTo(Extents, MaxInput)
  /\ departments = NoData
  /\ input_data = NoData
  /\ department_codes = <<>>
  /\ codeIdx = 1
  /\ calls = <<>>
  /\ caller = "none"
  /\ region = "none"
  /\ csvFile \in Catalogs
  /\ links = <<>>
  /\ linkIdx = 1
  /\ requested = <<>>
  /\ saved = {}
  /\ regionDirs = {}

\* Lines 126-131: both files are read; a failure of either is logged and the
\* function returns.
ShapefileRead ==
  /\ command = "shapefile"
  /\ pc = "start"
  /\ \E ok \in BOOLEAN :
       IF ok
       THEN \E dc \in CRSValues, ic \in CRSValues :
              /\ departments' = [crs |-> dc, features |-> departmentsFile]
              /\ input_data' = [crs |-> ic, features |-> inputFile]
              /\ missingCrs' = {d \in {"departments"} : dc = NoCRS}
                                \cup {d \in {"input_data"} : ic = NoCRS}
              /\ pc' = "loaded"
              /\ UNCHANGED <<err, log>>
       ELSE /\ pc' = "done"
            /\ err' = "read_error"
            /\ log' = log \cup {<<"ERROR", "Error reading shapefile or GeoJSON", "">>}
            /\ UNCHANGED <<departments, input_data, missingCrs>>
  /\ UNCHANGED <<overlayRuns, filterVars, departmentsFile, inputFile,
                 department_codes, codeIdx, calls, downloadVars>>
  /\ UNCHANGED <<command>>

\* Lines 133-137: the ValueError of to_crs is not caught; it ends the command.
ShapefileNormalize ==
  /\ command = "shapefile"
  /\ pc = "loaded"
  /\ IF \/ (NeedsReprojection(departments) /\ ToCrsRaises(departments))
        \/ (NeedsReprojection(input_data) /\ ToCrsRaises(input_data))
     THEN /\ pc' = "crashed"
          /\ err' = "crs_error"
          /\ UNCHANGED <<departments, input_data>>
     ELSE /\ pc' = "normalized"
          /\ departments' = Normalized(departments)
          /\ input_data' = Normalized(input_data)
          /\ UNCHANGED err
  /\ UNCHANGED <<log, overlayRuns, filterVars, departmentsFile, inputFile,
                 department_codes, codeIdx, calls, downloadVars>>
  /\ UNCHANGED <<command, missingCrs>>

\* Mutant: the codes of the overlay rows are not deduplicated.
DepartmentCodes_NoUnique(depts, aoi) == OverlayColumn(depts, aoi, "code")

\* Line 141: the distinct codes of the overlay, in order of first appearance.
DepartmentCodes(depts, aoi) == Unique(OverlayColumn(depts, aoi, "code"))

\* Lines 139-144: the overlay and its codes; an exception of the overlay is
\* logged and the function returns.
ShapefileOverlay ==
  /\ command = "shapefile"
  /\ pc = "normalized"
  /\ IF MixedGeomTypes(input_data.features)
     THEN /\ pc' = AfterOverlayError
          /\ err' = "overlay_error"
          /\ log' = log \cup {<<"ERROR", "Error during spatial intersection", "">>}
          /\ UNCHANGED <<overlayRuns, department_codes>>
     ELSE /\ overlayRuns' = overlayRuns + 1
          /\ department_codes' = DepartmentCodes(departments.features, input_data.features)
          /\ pc' = "acquire"
          /\ UNCHANGED <<err, log>>
  /\ UNCHANGED <<filterVars, departmentsFile, inputFile, departments, input_data,
                 codeIdx, calls, downloadVars>>
  /\ UNCHANGED <<command, missingCrs>>

\* Lines 146-147, one iteration: download_data_from_csv is called with the
\* next code.
ShapefileCall ==
  /\ command = "shapefile"
  /\ pc = "acquire"
  /\ codeIdx <= Len(department_codes)
  /\ calls' = Append(calls, department_codes[codeIdx])
  /\ caller' = "shapefile"
  /\ region' = department_codes[codeIdx]
  /\ links' = <<>>
  /\ linkIdx' = 1
  /\ pc' = "dl_start"
  /\ UNCHANGED <<err, log, overlayRuns, filterVars, departmentsFile, inputFile,
                 departments, input_data, department_codes, codeIdx, csvFile,
                 requested, saved, regionDirs>>
  /\ UNCHANGED <<command, missingCrs>>

\* The loop over the codes has ended: the function returns.
ShapefileReturn ==
  /\ command = "shapefile"
  /\ pc = "acquire"
  /\ codeIdx > Len(department_codes)
  /\ pc' = "done"
  /\ UNCHANGED <<err, log, overlayRuns, filterVars, selectVars, downloadVars>>
  /\ UNCHANGED <<command, missingCrs>>

NextShapefile ==
  \/ ShapefileRead
  \/ ShapefileNormalize
  \/ ShapefileOverlay
  \/ ShapefileCall
  \/ ShapefileReturn
  \/ DownloadResolve
  \/ DownloadFetch
  \/ DownloadReturn

SpecShapefile == InitShapefile /\ [][NextShapefile]_vars

----------------------------------------------------------------------------
\* main, lines 214-223: one of the commands runs.

Init == InitFilter \/ InitShapefile \/ InitDownload

Next == NextFilter \/ NextShapefile \/ NextDownload

Spec == Init /\ [][Next]_vars

----------------------------------------------------------------------------
\* Properties

\* The filter has computed its sets: it is in the pruning loop or has
\* returned from it.
Pruned == command = "filter" /\ (pc = "prune" \/ (pc = "done" /\ err = "none"))

\* The distinct identifiers of the tile index file.
TileIndexIds == {tilesFile[i].NOM : i \in 1..Len(tilesFile)}

\* The distinct identifiers of the intersection result.
Kept == Range(intersected_tile_ids)

\* Two footprints have a point of the ground in common.
SharePoint(g, a) ==
  \E x \in Coords : g[1] <= x /\ x <= g[2] /\ a[1] <= x /\ x <= a[2]

\* Two footprints have a unit of extent in common.
ShareExtent(g, a) ==
  \E x \in Coords : g[1] <= x /\ x + 1 <= g[2] /\ a[1] <= x /\ x + 1 <= a[2]

\* The codes of the departments whose footprint has a point in common with
\* a feature of the input file.
IntersectingCodes ==
  {departmentsFile[i].code :
     i \in {j \in 1..Len(departmentsFile) :
              \E a \in inputFile : SharePoint(departmentsFile[j].geom, a)}}

\* The overlay step of the shapefile command is behind.
PastSelection ==
  /\ command = "shapefile"
  /\ \/ pc \in {"acquire", "dl_start", "dl_fetch"}
     \/ (pc = "done" /\ err # "read_error")

\* The input is disjoint from every department, or a dataset has no feature.
DisjointOrEmpty ==
  \A i \in 1..Len(departmentsFile) :
    \A a \in inputFile : ~SharePoint(departmentsFile[i].geom, a)

\* The rows of the catalog whose Code is the requested region.
MatchingRows == {i \in 1..Len(csvFile) : csvFile[i].Code = region}

\* C1: whenever the filter reaches the pruning step, the identifiers of the
\* intersection result and the set computed for deletion are disjoint and
\* together are the distinct identifiers of the tile index.
C1_KeptRemovedPartition ==
  Pruned =>
    /\ Kept \cap tiles_to_remove = {}
    /\ Kept \cup tiles_to_remove = TileIndexIds
    /\ all_tiles = TileIndexIds

\* C1 witness: a run in the pruning step with tiles kept and tiles removed.
C1_Witness == Pruned /\ Kept # {} /\ tiles_to_remove # {}

\* C2 as claimed: after the filter completes, the directory holds what it
\* held before minus the files whose name is an identifier in the removed
\* set, and nothing else is deleted.
C2_DirectoryAfterFilter ==
  (command = "filter" /\ runNo = 1 /\ pc = "done" /\ err = "none") =>
    data_directory = dir0 \ tiles_to_remove

\* C3: a second run on the directory a first run pruned raises no error,
\* computes the removed set of the first run and leaves the directory as
\* the first run left it.
C3_SecondRunIdempotent ==
  (command = "filter" /\ runNo = 2) =>
    /\ data_directory = dir1
    /\ pc # "crashed"
    /\ err = "none"
    /\ (Pruned => tiles_to_remove = removed1)

\* C3 witness: the second run has returned, and the first run had deleted
\* files, which the second run found absent.
C3_Witness ==
  /\ command = "filter" /\ runNo = 2 /\ pc = "done"
  /\ removed1 # {} /\ dir1 # dir0
  /\ tiles_to_remove = removed1

C6_LinksOfRegion ==
  (command = "download" /\ (pc = "dl_fetch" \/ (pc = "done" /\ err = "none"))) =>
    /\ Len(links) = Cardinality(MatchingRows)
    /\ \A i \in MatchingRows : \E k \in 1..Len(links) : links[k] = csvFile[i].Link
    /\ \A k \in 1..Len(links) : \E i \in MatchingRows : csvFile[i].Link = links[k]
    /\ \A j, k \in 1..Len(links) : j < k => links[j] < links[k]
    /\ (MatchingRows = {} => links = <<>> /\ err = "none")
    /\ (pc = "done" => requested = [k \in 1..Len(links) |-> <<region, links[k]>>])

\* C6 witness: the command has returned for a catalog with a row of the
\* region and a row of another code.
C6_Witness ==
  /\ command = "download" /\ pc = "done" /\ err = "none"
  /\ Len(csvFile) = 2 /\ Len(links) = 1
  /\ requested = <<<<region, links[1]>>>>

\* C7: a dataset read without a declared crs ends the command at the
\* normalization with an error; the dataset keeps no crs, no overlay is
\* evaluated, nothing is requested and no file is deleted.
C7_MissingCrsFails ==
  (missingCrs # {} /\ pc \notin {"start", "loaded"}) =>
    /\ pc = "crashed"
    /\ err = "crs_error"
    /\ ("reference" \in missingCrs => reference.crs = NoCRS)
    /\ ("tiles" \in missingCrs => tiles.crs = NoCRS)
    /\ ("departments" \in missingCrs => departments.crs = NoCRS)
    /\ ("input_data" \in missingCrs => input_data.crs = NoCRS)
    /\ overlayRuns = 0
    /\ calls = <<>>
    /\ requested = <<>>
    /\ removeCalls = {}
    /\ data_directory = dir0

\* C7 witness: the filter has ended on a tile index without a crs, with
\* tiles in the index and files in the directory.
C7_Witness ==
  /\ command = "filter" /\ pc = "crashed"
  /\ missingCrs = {"tiles"}
  /\ tilesFile # <<>> /\ data_directory # {}

\* C8 as claimed: a tile record without an identifier is in neither set,
\* no removal is attempted for it, and a warning reports it.
C8_MissingIdentifierSkipped ==
  (Pruned /\ Null \in TileIndexIds) =>
    /\ Null \notin Kept
    /\ Null \notin tiles_to_remove
    /\ TileFileName(Null) \notin removeCalls
    /\ \E r \in log : r[1] = "WARNING"

\* C9: after a failure of the read, of the normalization or of the overlay
\* the command has ended, and no file was deleted, no acquisition was
\* called and nothing was requested or written.
C9_FailureBeforeSideEffects ==
  err \in {"read_error", "crs_error", "overlay_error"} =>
    /\ pc \in {"done", "crashed"}
    /\ data_directory = dir0
    /\ removeCalls = {}
    /\ calls = <<>>
    /\ requested = <<>>
    /\ saved = {}
    /\ regionDirs = {}

\* C9 witness: the overlay of the filter has failed with tiles in the index
\* and files in the directory.
C9_Witness ==
  /\ command = "filter" /\ err = "overlay_error" /\ pc = "done"
  /\ tilesFile # <<>> /\ data_directory # {}

\* C10: download_data_from_csv is called with the selected codes only, in
\* their order, never twice with the same code and never before the
\* selection has completed; when the command returns after a selection it
\* has been called with every selected code.
C10_OneAcquisitionPerCode ==
  command = "shapefile" =>
    /\ (calls # <<>> => overlayRuns = 1)
    /\ (requested # <<>> => calls # <<>>)
    /\ Len(calls) <= Len(department_codes)
    /\ \A k \in 1..Len(calls) : calls[k] = department_codes[k]
    /\ \A j, k \in 1..Len(calls) : j # k => calls[j] # calls[k]
    /\ Range(calls) \subseteq IntersectingCodes
    /\ ((pc = "done" /\ overlayRuns = 1) => Range(calls) = IntersectingCodes)

\* C10 witness: the command has returned after two acquisitions, and two
\* input features intersect one of the departments.
C10_Witness ==
  /\ command = "shapefile" /\ pc = "done"
  /\ Len(calls) = 2
  /\ \E i \in 1..Len(departmentsFile) : Hits(departmentsFile[i].geom, inputFile) = 2

====
